---- MODULE Spec2Model ----
(***************************************************************************)
(* Model of src/agent.py: the deep-research pipeline                       *)
(*   plan -> (search -> fetch -> extract) x N angles -> synthesize         *)
(* and of the SWOT post-processing rule applied to the planner's output.   *)
(*                                                                         *)
(* Python strings that the code inspects (angles, topic, context,          *)
(* keywords) are sequences of Unicode code points, so that str.lower()     *)
(* and the `in` substring test are computed, not assumed.  Texts the code  *)
(* only passes along (page text, error messages, markdown) are tokens.     *)
(***************************************************************************)
EXTENDS Naturals, Sequences, FiniteSets, TLC

\* ------------------------------------------------------------------ bounds
\* Longest angle list the planner is taken to return in SpecSwot.
MaxAngles == 5
\* Most hits the search provider is taken to return for one query.
MaxResults == 3

\* ----------------------------------------------------------- program constants
\* results[:2] of process_angle: only the first two hits are fetched.
FetchTop == 2
\* len(plan.angles) >= 4 of ensure_swot_angle_if_applicable.
AngleCap == 4

\* ------------------------------------------------------------------ strings
\* A character is its Unicode code point; a Python str is a sequence of
\* code points ("swot" is <<115, 119, 111, 116>>).
\*
\* str.lower() is Unicode case mapping, as CPython 3.11 (Unicode 14.0.0)
\* computes it: every code point has one lower-case code point, except
\* U+0130, which becomes two (U+0069 U+0307), and U+03A3 (capital sigma),
\* which becomes the final sigma U+03C2 when a cased letter precedes it and
\* none follows (case-ignorable characters skipped), else U+03C3.
\*
\* The three tables list the code points above U+007F as ranges
\* <<first, last, step, ..>>: a code point c is in a range when
\* first <= c <= last and (c - first) is a multiple of step.

\* <<first, last, step, lower(first)>>: lower(c) = lower(first) + (c - first).
LowerRanges ==
    { <<192, 214, 1, 224>>, <<216, 222, 1, 248>>, <<256, 302, 2, 257>>,
      <<306, 310, 2, 307>>, <<313, 327, 2, 314>>, <<330, 374, 2, 331>>,
      <<376, 376, 1, 255>>, <<377, 381, 2, 378>>, <<385, 385, 1, 595>>,
      <<386, 388, 2, 387>>, <<390, 390, 1, 596>>, <<391, 391, 1, 392>>,
      <<393, 394, 1, 598>>, <<395, 395, 1, 396>>, <<398, 398, 1, 477>>,
      <<399, 399, 1, 601>>, <<400, 400, 1, 603>>, <<401, 401, 1, 402>>,
      <<403, 403, 1, 608>>, <<404, 404, 1, 611>>, <<406, 406, 1, 617>>,
      <<407, 407, 1, 616>>, <<408, 408, 1, 409>>, <<412, 412, 1, 623>>,
      <<413, 413, 1, 626>>, <<415, 415, 1, 629>>, <<416, 420, 2, 417>>,
      <<422, 422, 1, 640>>, <<423, 423, 1, 424>>, <<425, 425, 1, 643>>,
      <<428, 428, 1, 429>>, <<430, 430, 1, 648>>, <<431, 431, 1, 432>>,
      <<433, 434, 1, 650>>, <<435, 437, 2, 436>>, <<439, 439, 1, 658>>,
      <<440, 440, 1, 441>>, <<444, 444, 1, 445>>, <<452, 452, 1, 454>>,
      <<453, 453, 1, 454>>, <<455, 455, 1, 457>>, <<456, 456, 1, 457>>,
      <<458, 458, 1, 460>>, <<459, 475, 2, 460>>, <<478, 494, 2, 479>>,
      <<497, 497, 1, 499>>, <<498, 500, 2, 499>>, <<502, 502, 1, 405>>,
      <<503, 503, 1, 447>>, <<504, 542, 2, 505>>, <<544, 544, 1, 414>>,
      <<546, 562, 2, 547>>, <<570, 570, 1, 11365>>, <<571, 571, 1, 572>>,
      <<573, 573, 1, 410>>, <<574, 574, 1, 11366>>, <<577, 577, 1, 578>>,
      <<579, 579, 1, 384>>, <<580, 580, 1, 649>>, <<581, 581, 1, 652>>,
      <<582, 590, 2, 583>>, <<880, 882, 2, 881>>, <<886, 886, 1, 887>>,
      <<895, 895, 1, 1011>>, <<902, 902, 1, 940>>, <<904, 906, 1, 941>>,
      <<908, 908, 1, 972>>, <<910, 911, 1, 973>>, <<913, 929, 1, 945>>,
      <<931, 939, 1, 963>>, <<975, 975, 1, 983>>, <<984, 1006, 2, 985>>,
      <<1012, 1012, 1, 952>>, <<1015, 1015, 1, 1016>>,
      <<1017, 1017, 1, 1010>>, <<1018, 1018, 1, 1019>>,
      <<1021, 1023, 1, 891>>, <<1024, 1039, 1, 1104>>,
      <<1040, 1071, 1, 1072>>, <<1120, 1152, 2, 1121>>,
      <<1162, 1214, 2, 1163>>, <<1216, 1216, 1, 1231>>,
      <<1217, 1229, 2, 1218>>, <<1232, 1326, 2, 1233>>,
      <<1329, 1366, 1, 1377>>, <<4256, 4293, 1, 11520>>,
      <<4295, 4295, 1, 11559>>, <<4301, 4301, 1, 11565>>,
      <<5024, 5103, 1, 43888>>, <<5104, 5109, 1, 5112>>,
      <<7312, 7354, 1, 4304>>, <<7357, 7359, 1, 4349>>,
      <<7680, 7828, 2, 7681>>, <<7838, 7838, 1, 223>>,
      <<7840, 7934, 2, 7841>>, <<7944, 7951, 1, 7936>>,
      <<7960, 7965, 1, 7952>>, <<7976, 7983, 1, 7968>>,
      <<7992, 7999, 1, 7984>>, <<8008, 8013, 1, 8000>>,
      <<8025, 8031, 2, 8017>>, <<8040, 8047, 1, 8032>>,
      <<8072, 8079, 1, 8064>>, <<8088, 8095, 1, 8080>>,
      <<8104, 8111, 1, 8096>>, <<8120, 8121, 1, 8112>>,
      <<8122, 8123, 1, 8048>>, <<8124, 8124, 1, 8115>>,
      <<8136, 8139, 1, 8050>>, <<8140, 8140, 1, 8131>>,
      <<8152, 8153, 1, 8144>>, <<8154, 8155, 1, 8054>>,
      <<8168, 8169, 1, 8160>>, <<8170, 8171, 1, 8058>>,
      <<8172, 8172, 1, 8165>>, <<8184, 8185, 1, 8056>>,
      <<8186, 8187, 1, 8060>>, <<8188, 8188, 1, 8179>>,
      <<8486, 8486, 1, 969>>, <<8490, 8490, 1, 107>>, <<8491, 8491, 1, 229>>,
      <<8498, 8498, 1, 8526>>, <<8544, 8559, 1, 8560>>,
      <<8579, 8579, 1, 8580>>, <<9398, 9423, 1, 9424>>,
      <<11264, 11311, 1, 11312>>, <<11360, 11360, 1, 11361>>,
      <<11362, 11362, 1, 619>>, <<11363, 11363, 1, 7549>>,
      <<11364, 11364, 1, 637>>, <<11367, 11371, 2, 11368>>,
      <<11373, 11373, 1, 593>>, <<11374, 11374, 1, 625>>,
      <<11375, 11375, 1, 592>>, <<11376, 11376, 1, 594>>,
      <<11378, 11378, 1, 11379>>, <<11381, 11381, 1, 11382>>,
      <<11390, 11391, 1, 575>>, <<11392, 11490, 2, 11393>>,
      <<11499, 11501, 2, 11500>>, <<11506, 11506, 1, 11507>>,
      <<42560, 42604, 2, 42561>>, <<42624, 42650, 2, 42625>>,
      <<42786, 42798, 2, 42787>>, <<42802, 42862, 2, 42803>>,
      <<42873, 42875, 2, 42874>>, <<42877, 42877, 1, 7545>>,
      <<42878, 42886, 2, 42879>>, <<42891, 42891, 1, 42892>>,
      <<42893, 42893, 1, 613>>, <<42896, 42898, 2, 42897>>,
      <<42902, 42920, 2, 42903>>, <<42922, 42922, 1, 614>>,
      <<42923, 42923, 1, 604>>, <<42924, 42924, 1, 609>>,
      <<42925, 42925, 1, 620>>, <<42926, 42926, 1, 618>>,
      <<42928, 42928, 1, 670>>, <<42929, 42929, 1, 647>>,
      <<42930, 42930, 1, 669>>, <<42931, 42931, 1, 43859>>,
      <<42932, 42946, 2, 42933>>, <<42948, 42948, 1, 42900>>,
      <<42949, 42949, 1, 642>>, <<42950, 42950, 1, 7566>>,
      <<42951, 42953, 2, 42952>>, <<42960, 42960, 1, 42961>>,
      <<42966, 42968, 2, 42967>>, <<42997, 42997, 1, 42998>>,
      <<65313, 65338, 1, 65345>>, <<66560, 66599, 1, 66600>>,
      <<66736, 66771, 1, 66776>>, <<66928, 66938, 1, 66967>>,
      <<66940, 66954, 1, 66979>>, <<66956, 66962, 1, 66995>>,
      <<66964, 66965, 1, 67003>>, <<68736, 68786, 1, 68800>>,
      <<71840, 71871, 1, 71872>>, <<93760, 93791, 1, 93792>>,
      <<125184, 125217, 1, 125218>> }

\* Case-ignorable code points (skipped by the final-sigma scan).
CaseIgnorableRanges ==
    { <<168, 168, 1>>, <<173, 175, 2>>, <<180, 180, 1>>, <<183, 184, 1>>,
      <<688, 879, 1>>, <<884, 885, 1>>, <<890, 890, 1>>, <<900, 901, 1>>,
      <<903, 903, 1>>, <<1155, 1161, 1>>, <<1369, 1369, 1>>,
      <<1375, 1375, 1>>, <<1425, 1469, 1>>, <<1471, 1473, 2>>,
      <<1474, 1476, 2>>, <<1477, 1479, 2>>, <<1524, 1524, 1>>,
      <<1536, 1541, 1>>, <<1552, 1562, 1>>, <<1564, 1564, 1>>,
      <<1600, 1600, 1>>, <<1611, 1631, 1>>, <<1648, 1648, 1>>,
      <<1750, 1757, 1>>, <<1759, 1768, 1>>, <<1770, 1773, 1>>,
      <<1807, 1809, 2>>, <<1840, 1866, 1>>, <<1958, 1968, 1>>,
      <<2027, 2037, 1>>, <<2042, 2042, 1>>, <<2045, 2045, 1>>,
      <<2070, 2093, 1>>, <<2137, 2139, 1>>, <<2184, 2184, 1>>,
      <<2192, 2193, 1>>, <<2200, 2207, 1>>, <<2249, 2306, 1>>,
      <<2362, 2364, 2>>, <<2369, 2376, 1>>, <<2381, 2381, 1>>,
      <<2385, 2391, 1>>, <<2402, 2403, 1>>, <<2417, 2417, 1>>,
      <<2433, 2433, 1>>, <<2492, 2492, 1>>, <<2497, 2500, 1>>,
      <<2509, 2509, 1>>, <<2530, 2531, 1>>, <<2558, 2558, 1>>,
      <<2561, 2562, 1>>, <<2620, 2620, 1>>, <<2625, 2626, 1>>,
      <<2631, 2632, 1>>, <<2635, 2637, 1>>, <<2641, 2641, 1>>,
      <<2672, 2673, 1>>, <<2677, 2677, 1>>, <<2689, 2690, 1>>,
      <<2748, 2748, 1>>, <<2753, 2757, 1>>, <<2759, 2760, 1>>,
      <<2765, 2765, 1>>, <<2786, 2787, 1>>, <<2810, 2815, 1>>,
      <<2817, 2817, 1>>, <<2876, 2876, 1>>, <<2879, 2881, 2>>,
      <<2882, 2884, 1>>, <<2893, 2893, 1>>, <<2901, 2902, 1>>,
      <<2914, 2915, 1>>, <<2946, 2946, 1>>, <<3008, 3008, 1>>,
      <<3021, 3021, 1>>, <<3072, 3072, 1>>, <<3076, 3076, 1>>,
      <<3132, 3134, 2>>, <<3135, 3136, 1>>, <<3142, 3144, 1>>,
      <<3146, 3149, 1>>, <<3157, 3158, 1>>, <<3170, 3171, 1>>,
      <<3201, 3201, 1>>, <<3260, 3260, 1>>, <<3263, 3263, 1>>,
      <<3270, 3270, 1>>, <<3276, 3277, 1>>, <<3298, 3299, 1>>,
      <<3328, 3329, 1>>, <<3387, 3388, 1>>, <<3393, 3396, 1>>,
      <<3405, 3405, 1>>, <<3426, 3427, 1>>, <<3457, 3457, 1>>,
      <<3530, 3530, 1>>, <<3538, 3540, 1>>, <<3542, 3542, 1>>,
      <<3633, 3633, 1>>, <<3636, 3642, 1>>, <<3654, 3662, 1>>,
      <<3761, 3761, 1>>, <<3764, 3772, 1>>, <<3782, 3784, 2>>,
      <<3785, 3789, 1>>, <<3864, 3865, 1>>, <<3893, 3897, 2>>,
      <<3953, 3966, 1>>, <<3968, 3972, 1>>, <<3974, 3975, 1>>,
      <<3981, 3991, 1>>, <<3993, 4028, 1>>, <<4038, 4038, 1>>,
      <<4141, 4144, 1>>, <<4146, 4151, 1>>, <<4153, 4154, 1>>,
      <<4157, 4158, 1>>, <<4184, 4185, 1>>, <<4190, 4192, 1>>,
      <<4209, 4212, 1>>, <<4226, 4226, 1>>, <<4229, 4230, 1>>,
      <<4237, 4237, 1>>, <<4253, 4253, 1>>, <<4348, 4348, 1>>,
      <<4957, 4959, 1>>, <<5906, 5908, 1>>, <<5938, 5939, 1>>,
      <<5970, 5971, 1>>, <<6002, 6003, 1>>, <<6068, 6069, 1>>,
      <<6071, 6077, 1>>, <<6086, 6086, 1>>, <<6089, 6099, 1>>,
      <<6103, 6103, 1>>, <<6109, 6109, 1>>, <<6155, 6159, 1>>,
      <<6211, 6211, 1>>, <<6277, 6278, 1>>, <<6313, 6313, 1>>,
      <<6432, 6434, 1>>, <<6439, 6440, 1>>, <<6450, 6450, 1>>,
      <<6457, 6459, 1>>, <<6679, 6680, 1>>, <<6683, 6683, 1>>,
      <<6742, 6744, 2>>, <<6745, 6750, 1>>, <<6752, 6754, 2>>,
      <<6757, 6764, 1>>, <<6771, 6780, 1>>, <<6783, 6783, 1>>,
      <<6823, 6823, 1>>, <<6832, 6862, 1>>, <<6912, 6915, 1>>,
      <<6964, 6966, 2>>, <<6967, 6970, 1>>, <<6972, 6972, 1>>,
      <<6978, 6978, 1>>, <<7019, 7027, 1>>, <<7040, 7041, 1>>,
      <<7074, 7077, 1>>, <<7080, 7081, 1>>, <<7083, 7085, 1>>,
      <<7142, 7144, 2>>, <<7145, 7145, 1>>, <<7149, 7151, 2>>,
      <<7152, 7153, 1>>, <<7212, 7219, 1>>, <<7222, 7223, 1>>,
      <<7288, 7293, 1>>, <<7376, 7378, 1>>, <<7380, 7392, 1>>,
      <<7394, 7400, 1>>, <<7405, 7405, 1>>, <<7412, 7412, 1>>,
      <<7416, 7417, 1>>, <<7468, 7530, 1>>, <<7544, 7544, 1>>,
      <<7579, 7679, 1>>, <<8125, 8127, 2>>, <<8128, 8129, 1>>,
      <<8141, 8143, 1>>, <<8157, 8159, 1>>, <<8173, 8175, 1>>,
      <<8189, 8190, 1>>, <<8203, 8207, 1>>, <<8216, 8217, 1>>,
      <<8228, 8228, 1>>, <<8231, 8231, 1>>, <<8234, 8238, 1>>,
      <<8288, 8292, 1>>, <<8294, 8303, 1>>, <<8305, 8305, 1>>,
      <<8319, 8319, 1>>, <<8336, 8348, 1>>, <<8400, 8432, 1>>,
      <<11388, 11389, 1>>, <<11503, 11505, 1>>, <<11631, 11631, 1>>,
      <<11647, 11647, 1>>, <<11744, 11775, 1>>, <<11823, 11823, 1>>,
      <<12293, 12293, 1>>, <<12330, 12333, 1>>, <<12337, 12341, 1>>,
      <<12347, 12347, 1>>, <<12441, 12446, 1>>, <<12540, 12542, 1>>,
      <<40981, 40981, 1>>, <<42232, 42237, 1>>, <<42508, 42508, 1>>,
      <<42607, 42610, 1>>, <<42612, 42621, 1>>, <<42623, 42623, 1>>,
      <<42652, 42655, 1>>, <<42736, 42737, 1>>, <<42752, 42785, 1>>,
      <<42864, 42864, 1>>, <<42888, 42890, 1>>, <<42994, 42996, 1>>,
      <<43000, 43001, 1>>, <<43010, 43010, 1>>, <<43014, 43014, 1>>,
      <<43019, 43019, 1>>, <<43045, 43046, 1>>, <<43052, 43052, 1>>,
      <<43204, 43205, 1>>, <<43232, 43249, 1>>, <<43263, 43263, 1>>,
      <<43302, 43309, 1>>, <<43335, 43345, 1>>, <<43392, 43394, 1>>,
      <<43443, 43443, 1>>, <<43446, 43449, 1>>, <<43452, 43453, 1>>,
      <<43471, 43471, 1>>, <<43493, 43494, 1>>, <<43561, 43566, 1>>,
      <<43569, 43570, 1>>, <<43573, 43574, 1>>, <<43587, 43587, 1>>,
      <<43596, 43596, 1>>, <<43632, 43632, 1>>, <<43644, 43644, 1>>,
      <<43696, 43698, 2>>, <<43699, 43700, 1>>, <<43703, 43704, 1>>,
      <<43710, 43711, 1>>, <<43713, 43713, 1>>, <<43741, 43741, 1>>,
      <<43756, 43757, 1>>, <<43763, 43764, 1>>, <<43766, 43766, 1>>,
      <<43867, 43871, 1>>, <<43881, 43883, 1>>, <<44005, 44005, 1>>,
      <<44008, 44008, 1>>, <<44013, 44013, 1>>, <<64286, 64286, 1>>,
      <<64434, 64450, 1>>, <<65024, 65039, 1>>, <<65043, 65043, 1>>,
      <<65056, 65071, 1>>, <<65106, 65106, 1>>, <<65109, 65109, 1>>,
      <<65279, 65279, 1>>, <<65287, 65287, 1>>, <<65294, 65294, 1>>,
      <<65306, 65306, 1>>, <<65342, 65344, 2>>, <<65392, 65392, 1>>,
      <<65438, 65439, 1>>, <<65507, 65507, 1>>, <<65529, 65531, 1>>,
      <<66045, 66045, 1>>, <<66272, 66272, 1>>, <<66422, 66426, 1>>,
      <<67456, 67461, 1>>, <<67463, 67504, 1>>, <<67506, 67514, 1>>,
      <<68097, 68099, 1>>, <<68101, 68102, 1>>, <<68108, 68111, 1>>,
      <<68152, 68154, 1>>, <<68159, 68159, 1>>, <<68325, 68326, 1>>,
      <<68900, 68903, 1>>, <<69291, 69292, 1>>, <<69446, 69456, 1>>,
      <<69506, 69509, 1>>, <<69633, 69633, 1>>, <<69688, 69702, 1>>,
      <<69744, 69744, 1>>, <<69747, 69748, 1>>, <<69759, 69761, 1>>,
      <<69811, 69814, 1>>, <<69817, 69818, 1>>, <<69821, 69821, 1>>,
      <<69826, 69826, 1>>, <<69837, 69837, 1>>, <<69888, 69890, 1>>,
      <<69927, 69931, 1>>, <<69933, 69940, 1>>, <<70003, 70003, 1>>,
      <<70016, 70017, 1>>, <<70070, 70078, 1>>, <<70089, 70092, 1>>,
      <<70095, 70095, 1>>, <<70191, 70193, 1>>, <<70196, 70198, 2>>,
      <<70199, 70199, 1>>, <<70206, 70206, 1>>, <<70367, 70367, 1>>,
      <<70371, 70378, 1>>, <<70400, 70401, 1>>, <<70459, 70460, 1>>,
      <<70464, 70464, 1>>, <<70502, 70508, 1>>, <<70512, 70516, 1>>,
      <<70712, 70719, 1>>, <<70722, 70724, 1>>, <<70726, 70726, 1>>,
      <<70750, 70750, 1>>, <<70835, 70840, 1>>, <<70842, 70842, 1>>,
      <<70847, 70848, 1>>, <<70850, 70851, 1>>, <<71090, 71093, 1>>,
      <<71100, 71101, 1>>, <<71103, 71104, 1>>, <<71132, 71133, 1>>,
      <<71219, 71226, 1>>, <<71229, 71231, 2>>, <<71232, 71232, 1>>,
      <<71339, 71341, 2>>, <<71344, 71349, 1>>, <<71351, 71351, 1>>,
      <<71453, 71455, 1>>, <<71458, 71461, 1>>, <<71463, 71467, 1>>,
      <<71727, 71735, 1>>, <<71737, 71738, 1>>, <<71995, 71996, 1>>,
      <<71998, 71998, 1>>, <<72003, 72003, 1>>, <<72148, 72151, 1>>,
      <<72154, 72155, 1>>, <<72160, 72160, 1>>, <<72193, 72202, 1>>,
      <<72243, 72248, 1>>, <<72251, 72254, 1>>, <<72263, 72263, 1>>,
      <<72273, 72278, 1>>, <<72281, 72283, 1>>, <<72330, 72342, 1>>,
      <<72344, 72345, 1>>, <<72752, 72758, 1>>, <<72760, 72765, 1>>,
      <<72767, 72767, 1>>, <<72850, 72871, 1>>, <<72874, 72880, 1>>,
      <<72882, 72883, 1>>, <<72885, 72886, 1>>, <<73009, 73014, 1>>,
      <<73018, 73020, 2>>, <<73021, 73023, 2>>, <<73024, 73029, 1>>,
      <<73031, 73031, 1>>, <<73104, 73105, 1>>, <<73109, 73111, 2>>,
      <<73459, 73460, 1>>, <<78896, 78904, 1>>, <<92912, 92916, 1>>,
      <<92976, 92982, 1>>, <<92992, 92995, 1>>, <<94031, 94031, 1>>,
      <<94095, 94111, 1>>, <<94176, 94177, 1>>, <<94179, 94180, 1>>,
      <<110576, 110579, 1>>, <<110581, 110587, 1>>, <<110589, 110590, 1>>,
      <<113821, 113822, 1>>, <<113824, 113827, 1>>, <<118528, 118573, 1>>,
      <<118576, 118598, 1>>, <<119143, 119145, 1>>, <<119155, 119170, 1>>,
      <<119173, 119179, 1>>, <<119210, 119213, 1>>, <<119362, 119364, 1>>,
      <<121344, 121398, 1>>, <<121403, 121452, 1>>, <<121461, 121461, 1>>,
      <<121476, 121476, 1>>, <<121499, 121503, 1>>, <<121505, 121519, 1>>,
      <<122880, 122886, 1>>, <<122888, 122904, 1>>, <<122907, 122913, 1>>,
      <<122915, 122916, 1>>, <<122918, 122922, 1>>, <<123184, 123197, 1>>,
      <<123566, 123566, 1>>, <<123628, 123631, 1>>, <<125136, 125142, 1>>,
      <<125252, 125259, 1>>, <<127995, 127999, 1>>, <<917505, 917505, 1>>,
      <<917536, 917631, 1>>, <<917760, 917999, 1>> }

\* Cased code points that are not case-ignorable.
CasedRanges ==
    { <<170, 170, 1>>, <<181, 181, 1>>, <<186, 186, 1>>, <<192, 214, 1>>,
      <<216, 246, 1>>, <<248, 442, 1>>, <<444, 447, 1>>, <<452, 659, 1>>,
      <<661, 687, 1>>, <<880, 883, 1>>, <<886, 887, 1>>, <<891, 893, 1>>,
      <<895, 895, 1>>, <<902, 904, 2>>, <<905, 906, 1>>, <<908, 910, 2>>,
      <<911, 929, 1>>, <<931, 1013, 1>>, <<1015, 1153, 1>>,
      <<1162, 1327, 1>>, <<1329, 1366, 1>>, <<1376, 1416, 1>>,
      <<4256, 4293, 1>>, <<4295, 4295, 1>>, <<4301, 4301, 1>>,
      <<4304, 4346, 1>>, <<4349, 4351, 1>>, <<5024, 5109, 1>>,
      <<5112, 5117, 1>>, <<7296, 7304, 1>>, <<7312, 7354, 1>>,
      <<7357, 7359, 1>>, <<7424, 7467, 1>>, <<7531, 7543, 1>>,
      <<7545, 7578, 1>>, <<7680, 7957, 1>>, <<7960, 7965, 1>>,
      <<7968, 8005, 1>>, <<8008, 8013, 1>>, <<8016, 8023, 1>>,
      <<8025, 8031, 2>>, <<8032, 8061, 1>>, <<8064, 8116, 1>>,
      <<8118, 8124, 1>>, <<8126, 8126, 1>>, <<8130, 8132, 1>>,
      <<8134, 8140, 1>>, <<8144, 8147, 1>>, <<8150, 8155, 1>>,
      <<8160, 8172, 1>>, <<8178, 8180, 1>>, <<8182, 8188, 1>>,
      <<8450, 8450, 1>>, <<8455, 8455, 1>>, <<8458, 8467, 1>>,
      <<8469, 8469, 1>>, <<8473, 8477, 1>>, <<8484, 8490, 2>>,
      <<8491, 8493, 1>>, <<8495, 8500, 1>>, <<8505, 8505, 1>>,
      <<8508, 8511, 1>>, <<8517, 8521, 1>>, <<8526, 8526, 1>>,
      <<8544, 8575, 1>>, <<8579, 8580, 1>>, <<9398, 9449, 1>>,
      <<11264, 11387, 1>>, <<11390, 11492, 1>>, <<11499, 11502, 1>>,
      <<11506, 11507, 1>>, <<11520, 11557, 1>>, <<11559, 11559, 1>>,
      <<11565, 11565, 1>>, <<42560, 42605, 1>>, <<42624, 42651, 1>>,
      <<42786, 42863, 1>>, <<42865, 42887, 1>>, <<42891, 42894, 1>>,
      <<42896, 42954, 1>>, <<42960, 42961, 1>>, <<42963, 42965, 2>>,
      <<42966, 42969, 1>>, <<42997, 42998, 1>>, <<43002, 43002, 1>>,
      <<43824, 43866, 1>>, <<43872, 43880, 1>>, <<43888, 43967, 1>>,
      <<64256, 64262, 1>>, <<64275, 64279, 1>>, <<65313, 65338, 1>>,
      <<65345, 65370, 1>>, <<66560, 66639, 1>>, <<66736, 66771, 1>>,
      <<66776, 66811, 1>>, <<66928, 66938, 1>>, <<66940, 66954, 1>>,
      <<66956, 66962, 1>>, <<66964, 66965, 1>>, <<66967, 66977, 1>>,
      <<66979, 66993, 1>>, <<66995, 67001, 1>>, <<67003, 67004, 1>>,
      <<68736, 68786, 1>>, <<68800, 68850, 1>>, <<71840, 71903, 1>>,
      <<93760, 93823, 1>>, <<119808, 119892, 1>>, <<119894, 119964, 1>>,
      <<119966, 119967, 1>>, <<119970, 119970, 1>>, <<119973, 119974, 1>>,
      <<119977, 119980, 1>>, <<119982, 119993, 1>>, <<119995, 119997, 2>>,
      <<119998, 120003, 1>>, <<120005, 120069, 1>>, <<120071, 120074, 1>>,
      <<120077, 120084, 1>>, <<120086, 120092, 1>>, <<120094, 120121, 1>>,
      <<120123, 120126, 1>>, <<120128, 120132, 1>>, <<120134, 120134, 1>>,
      <<120138, 120144, 1>>, <<120146, 120485, 1>>, <<120488, 120512, 1>>,
      <<120514, 120538, 1>>, <<120540, 120570, 1>>, <<120572, 120596, 1>>,
      <<120598, 120628, 1>>, <<120630, 120654, 1>>, <<120656, 120686, 1>>,
      <<120688, 120712, 1>>, <<120714, 120744, 1>>, <<120746, 120770, 1>>,
      <<120772, 120779, 1>>, <<122624, 122633, 1>>, <<122635, 122654, 1>>,
      <<125184, 125251, 1>>, <<127280, 127305, 1>>, <<127312, 127337, 1>>,
      <<127344, 127369, 1>> }

InRanges(c, ranges) ==
    \E r \in ranges : r[1] <= c /\ c <= r[2] /\ (c - r[1]) % r[3] = 0

\* ' . : ^ ` below U+0080, the table above it.
CaseIgnorable(c) ==
    IF c < 128 THEN c \in {39, 46, 58, 94, 96} ELSE InRanges(c, CaseIgnorableRanges)

\* A-Z and a-z below U+0080, the table above it.
Cased(c) ==
    IF c < 128 THEN c \in (65..90) \cup (97..122) ELSE InRanges(c, CasedRanges)

\* str.lower() of the one-character string c: a string of one or two
\* characters.
LowerChar(c) ==
    IF c < 128 THEN <<IF c \in 65..90 THEN c + 32 ELSE c>>
    ELSE IF c = 304 THEN <<105, 775>>
    ELSE IF InRanges(c, LowerRanges)
         THEN LET r == CHOOSE r \in LowerRanges :
                          r[1] <= c /\ c <= r[2] /\ (c - r[1]) % r[3] = 0
              IN  <<r[4] + (c - r[1])>>
         ELSE <<c>>

\* The final-sigma condition at position i of s.
FinalSigma(s, i) ==
    /\ \E j \in 1..(i - 1) :
          /\ Cased(s[j])
          /\ \A k \in (j + 1)..(i - 1) : CaseIgnorable(s[k])
    /\ ~\E j \in (i + 1)..Len(s) :
          /\ Cased(s[j])
          /\ \A k \in (i + 1)..(j - 1) : CaseIgnorable(s[k])

\* What character i of s becomes in s.lower().
LowerAt(s, i) ==
    IF s[i] = 931 THEN <<IF FinalSigma(s, i) THEN 962 ELSE 963>>
    ELSE LowerChar(s[i])

RECURSIVE LowerFrom(_, _)
LowerFrom(s, i) == IF i > Len(s) THEN <<>> ELSE LowerAt(s, i) \o LowerFrom(s, i + 1)

\* str.lower()
Lower(s) == LowerFrom(s, 1)

\* `needle in hay` for Python strings.
Contains(needle, hay) ==
    \E i \in 0..Len(hay) :
        /\ i + Len(needle) <= Len(hay)
        /\ SubSeq(hay, i + 1, i + Len(needle)) = needle

\* The literal "swot" of the membership test.
str_swot == <<115, 119, 111, 116>>
\* The literal "SWOT analysis" the rule inserts.
SWOT_ANALYSIS == <<83, 87, 79, 84, 32, 97, 110, 97, 108, 121, 115, 105, 115>>

\* keywords = ("company", "stock", "equity", "market cap", "earnings", "investor")
keywords ==
    { <<99, 111, 109, 112, 97, 110, 121>>,
      <<115, 116, 111, 99, 107>>,
      <<101, 113, 117, 105, 116, 121>>,
      <<109, 97, 114, 107, 101, 116, 32, 99, 97, 112>>,
      <<101, 97, 114, 110, 105, 110, 103, 115>>,
      <<105, 110, 118, 101, 115, 116, 111, 114>> }

\* ------------------------------------------------------------ the SWOT rule
\* combined = f"{plan.topic} {plan.context}".lower()
combined(plan) == Lower(plan.topic \o <<32>> \o plan.context)

\* needs_swot of ensure_swot_angle_if_applicable.
needs_swot(plan) ==
    \/ plan.is_ticker
    \/ \E k \in keywords : Contains(k, combined(plan))

\* "swot" in angle.lower()
MentionsSwot(angle) == Contains(str_swot, Lower(angle))

\* any("swot" in angle.lower() for angle in plan.angles)
HasSwotAngle(angles) == \E i \in 1..Len(angles) : MentionsSwot(angles[i])

\* A variant of the insertion that always appends.
AlwaysAppendSwot(angles) == Append(angles, SWOT_ANALYSIS)

\* The branch taken when SWOT is missing: plan.angles[-1] = ... at the cap,
\* plan.angles.append(...) below it.
InsertSwot(angles) ==
    IF Len(angles) >= AngleCap
    THEN [angles EXCEPT ![Len(angles)] = SWOT_ANALYSIS]
    ELSE Append(angles, SWOT_ANALYSIS)

\* ensure_swot_angle_if_applicable(plan): the plan as it is afterwards (the
\* code mutates plan.angles in place and touches nothing else).
ensure_swot_angle_if_applicable(plan) ==
    IF ~needs_swot(plan) THEN plan
    ELSE IF HasSwotAngle(plan.angles) THEN plan
    ELSE [plan EXCEPT !.angles = InsertSwot(plan.angles)]

\* Number of angles mentioning SWOT.
SwotCount(angles) == Cardinality({i \in 1..Len(angles) : MentionsSwot(angles[i])})


\* ------------------------------------------------------- values and inputs
\* Optional[str]: None is the empty tuple, a string s is <<s>>.  A page
\* text is a number: 0 is the empty string "", i > 0 is the (non-empty)
\* cleaned text of hit i's page.
None == <<>>
Some(s) == <<s>>
\* Python truthiness of an Optional[str]: neither None nor "".
Truthy(c) == c # None /\ c[1] # 0

\* Attribute values of an agent run result, as get_agent_output sees them.
Missing == [tag |-> "missing"]
NoneVal == [tag |-> "none"]
Obj(v) == [tag |-> "obj", val |-> v]

\* "Tesla", "market", "Rust", "STOC" + U+212A (KELVIN SIGN, lower-case "k")
topic_tesla == <<84, 101, 115, 108, 97>>
topic_market == <<109, 97, 114, 107, 101, 116>>
topic_rust == <<82, 117, 115, 116>>
topic_stock_kelvin == <<83, 84, 79, 67, 8490>>
\* "cap", "Investor day", "language", U+0130 + "nvestor"
context_cap == <<99, 97, 112>>
context_investor == <<73, 110, 118, 101, 115, 116, 111, 114, 32, 100, 97, 121>>
context_language == <<108, 97, 110, 103, 117, 97, 103, 101>>
context_dotted_investor == <<304, 110, 118, 101, 115, 116, 111, 114>>
\* "risks", "growth", "Swot review"
angle_risks == <<114, 105, 115, 107, 115>>
angle_growth == <<103, 114, 111, 119, 116, 104>>
angle_swot_review == <<83, 119, 111, 116, 32, 114, 101, 118, 105, 101, 119>>
\* "something else"
angle_something_else == <<115, 111, 109, 101, 116, 104, 105, 110, 103, 32, 101, 108, 115, 101>>

Topics == {topic_tesla, topic_market, topic_rust, topic_stock_kelvin}
Contexts == {context_cap, context_investor, context_language, context_dotted_investor}
AngleStrings == {angle_risks, angle_growth, angle_swot_review, SWOT_ANALYSIS}

\* All angle lists of length 0..n over AngleStrings.
AngleLists(n) == UNION {[1..k -> AngleStrings] : k \in 0..n}

\* ResearchPlan objects the planner may return (SpecSwot): the model
\* validates field types only, so any list of strings is a legal `angles`.
PlanInputs ==
    [is_ticker : BOOLEAN, topic : Topics, context : Contexts,
     angles : AngleLists(MaxAngles)]

\* ResearchPlan objects the planner returns in the pipeline runs (Spec).
PlannerPlans ==
    { [is_ticker |-> TRUE, topic |-> topic_tesla, context |-> context_language,
       angles |-> <<angle_risks, angle_growth>>],
      [is_ticker |-> FALSE, topic |-> topic_market, context |-> context_cap,
       angles |-> <<angle_swot_review, angle_risks>>],
      [is_ticker |-> FALSE, topic |-> topic_rust, context |-> context_language,
       angles |-> <<angle_growth>>],
      [is_ticker |-> FALSE, topic |-> topic_rust, context |-> context_language,
       angles |-> <<>>] }

NoPlan == [is_ticker |-> FALSE, topic |-> <<>>, context |-> <<>>, angles |-> <<>>]

\* The shapes an agent run result comes in across PydanticAI versions:
\* the value under the public attribute `output`, under `data` (with
\* `output` present but None), only in the instance dict under `_output`,
\* or nowhere.
RunShapes == {"output", "data", "_output", "nowhere"}

RunResult(shape, v) ==
    [attrs |-> [output |-> IF shape = "output" THEN Obj(v)
                           ELSE IF shape = "data" THEN NoneVal ELSE Missing,
                data   |-> IF shape = "data" THEN Obj(v) ELSE Missing,
                result |-> IF shape = "nowhere" THEN NoneVal ELSE Missing],
     dict  |-> [output  |-> IF shape = "data" THEN NoneVal ELSE Missing,
                data    |-> IF shape = "data" THEN Obj(v) ELSE Missing,
                _output |-> IF shape = "_output" THEN Obj(v) ELSE Missing,
                _data   |-> IF shape = "nowhere" THEN NoneVal ELSE Missing,
                result  |-> Missing,
                _result |-> Missing]]

\* What `await agent.run(prompt)` does: raise, or return a run result.
AgentOutcomes(v) ==
    {[kind |-> "raise", err |-> "agent run failed"]}
    \cup {[kind |-> "return", run |-> RunResult(sh, v)] : sh \in RunShapes}

\* -------------------------------------------------------- get_agent_output
PublicAttrs == <<"output", "data", "result">>
DictKeys == <<"output", "data", "_output", "_data", "result", "_result">>

\* First index of seq whose value under f is an object (not None, present).
FirstObj(f, names) ==
    IF \E i \in 1..Len(names) : f[names[i]].tag = "obj"
    THEN CHOOSE i \in 1..Len(names) :
            /\ f[names[i]].tag = "obj"
            /\ \A j \in 1..(i - 1) : f[names[j]].tag # "obj"
    ELSE 0

\* get_agent_output(run_result): [ok, value] or [ok, err] when it raises.
get_agent_output(run_result) ==
    LET a == FirstObj(run_result.attrs, PublicAttrs)
        d == FirstObj(run_result.dict, DictKeys)
    IN  IF a # 0 THEN [ok |-> TRUE, value |-> run_result.attrs[PublicAttrs[a]].val]
        ELSE IF d # 0 THEN [ok |-> TRUE, value |-> run_result.dict[DictKeys[d]].val]
        ELSE [ok |-> FALSE, err |-> "Unsupported AgentRunResult shape"]

\* `await agent.run(..)` followed by get_agent_output(..) inside one try:
\* [ok, value] or the exception the except clause receives.
RunAndUnwrap(o) ==
    IF o.kind = "raise" THEN [ok |-> FALSE, err |-> o.err]
    ELSE get_agent_output(o.run)


\* ------------------------------------------------------------------- state
VARIABLES
    pc,               \* where deep_research is: init, planning, research, synth, returned
    progress,         \* the checkpoints reported so far, in percent
    raw_plan,         \* the planner's output before the SWOT rule
    plan,             \* the plan after the SWOT rule
    plan_outcome,     \* none, ok, failed
    tpc,              \* per angle task: created, search, fetch, extract, done
    search_outcome,   \* per running angle task: none, raised, returned
    results,          \* per running angle task: the list of ResearchResult objects
    fetch_state,      \* per angle task, per fetched hit: pending, failed, ok
    fetch_value,      \* per angle task, per fetched hit: what the fetch returned
    angle_prompt,     \* per angle task: the result entries of the extraction prompt
    extract_outcome,  \* per angle task: none, ok, failed
    angle_data,       \* per angle task: the AngleData it returned
    planner_calls, search_calls, fetch_calls, extract_calls, synth_calls,
    report_prompt,    \* the synthesis prompt
    result,           \* what deep_research returned
    synth_outcome,    \* none, ok, failed
    stage_error       \* the exception the plan or synthesis stage caught

planVars == <<raw_plan, plan, plan_outcome>>
taskVars == <<tpc, search_outcome, results, fetch_state, fetch_value,
              angle_prompt, extract_outcome, angle_data>>
callVars == <<planner_calls, search_calls, fetch_calls, extract_calls, synth_calls>>
retVars == <<result, synth_outcome, stage_error>>
vars == <<pc, progress, planVars, taskVars, callVars, report_prompt, retVars>>

Tasks == 1..Len(tpc)
Min(a, b) == IF a < b THEN a ELSE b

NoData == [angle |-> <<>>, key_facts |-> <<>>, claims |-> <<>>, citations |-> <<>>]
NoReportPrompt == [topic |-> <<>>, context |-> <<>>, entries |-> <<>>]

\* ------------------------------------------------------- search_duckduckgo
\* What the provider call does: raise, or return raw hits; a raw hit is
\* "ok" or "bad" (a field that ResearchResult(...) rejects).
RawHitLists == UNION {[1..k -> {"ok", "bad"}] : k \in 0..MaxResults}
SearchOutcomes ==
    {[kind |-> "raise"]} \cup {[kind |-> "return", raw |-> r] : r \in RawHitLists}

\* Number of hits converted before the loop stops (at the first rejected
\* hit the exception leaves the loop and is swallowed).
Converted(raw) ==
    IF \E i \in 1..Len(raw) : raw[i] = "bad"
    THEN (CHOOSE i \in 1..Len(raw) :
            raw[i] = "bad" /\ \A j \in 1..(i - 1) : raw[j] = "ok") - 1
    ELSE Len(raw)

\* A search that hands back one placeholder result when the provider raises.
SearchKeepsPlaceholder(o) ==
    IF o.kind = "raise" THEN <<[hit |-> 1, content |-> None]>>
    ELSE [i \in 1..Converted(o.raw) |-> [hit |-> i, content |-> None]]

\* search_duckduckgo(query): the list it returns.  Result i stands for the
\* title, URL and snippet of the provider's i-th hit.
search_duckduckgo(o) ==
    IF o.kind = "raise" THEN <<>>
    ELSE [i \in 1..Converted(o.raw) |-> [hit |-> i, content |-> None]]

\* ------------------------------------------------------ fetch_page_content
FetchFailures == {"timeout", "http_404", "parse_error"}
FetchOutcomes == FetchFailures \cup {"empty_page", "page"}

\* A fetch that returns the error text as if it were page text.
FetchReturnsErrorText(hit, o) ==
    IF o \in FetchFailures THEN Some(hit)
    ELSE IF o = "empty_page" THEN Some(0) ELSE Some(hit)

\* fetch_page_content(url): None on any exception, else the cleaned text.
fetch_page_content(hit, o) ==
    IF o \in FetchFailures THEN None
    ELSE IF o = "empty_page" THEN Some(0) ELSE Some(hit)

\* ------------------------------------------------------------ process_angle
\* A variant that fetches every result.
AllResults(rs) == rs

\* results[:2]
TopResults(rs) == SubSeq(rs, 1, Min(FetchTop, Len(rs)))

\* for i, content in enumerate(contents): if content: results[i].content = content
Attach(rs, contents) ==
    [i \in 1..Len(rs) |->
        IF i <= Len(contents) /\ Truthy(contents[i])
        THEN [rs[i] EXCEPT !.content = contents[i]]
        ELSE rs[i]]

\* The result entries of angle_prompt: every result, with a Content line
\* only where r.content is truthy.
BuildAnglePrompt(rs) ==
    [i \in 1..Len(rs) |->
        [hit |-> rs[i].hit,
         content |-> IF Truthy(rs[i].content) THEN rs[i].content ELSE None]]

\* The angle names the extraction agent may put into its AngleData: the
\* field is free text, the angle asked for or any other.
ExtractedAngles(angle) == {angle, angle_something_else}

\* An AngleData the extraction agent produces for task t: the angle name it
\* chose and its findings (fact, claim and citation t stand for the lists).
ExtractedData(t, angle) ==
    [angle |-> angle, key_facts |-> <<t>>, claims |-> <<t>>, citations |-> <<t>>]

\* A fallback that reports the error as a fact.
FallbackWithError(angle) ==
    [angle |-> angle, key_facts |-> <<0>>, claims |-> <<>>, citations |-> <<>>]

\* AngleData(angle=angle, key_facts=[], claims=[], citations=[])
FallbackData(angle) ==
    [angle |-> angle, key_facts |-> <<>>, claims |-> <<>>, citations |-> <<>>]

\* ------------------------------------------------------------ deep_research
\* A planning stage that swallows the failure and goes on with a default
\* plan of one angle.
PlanStageSwallows(o) ==
    LET u == RunAndUnwrap(o)
    IN  IF u.ok
        THEN [ok |-> TRUE, raw |-> u.value,
              plan |-> ensure_swot_angle_if_applicable(u.value)]
        ELSE [ok |-> TRUE, raw |-> NoPlan,
              plan |-> [NoPlan EXCEPT !.angles = <<angle_risks>>]]

\* The try block of step 1 after planning_agent.run: unwrap, SWOT rule.
PlanStage(o) ==
    LET u == RunAndUnwrap(o)
    IN  IF u.ok
        THEN [ok |-> TRUE, raw |-> u.value,
              plan |-> ensure_swot_angle_if_applicable(u.value)]
        ELSE [ok |-> FALSE, err |-> u.err]

\* A planning failure that escapes deep_research.
PlanFailurePropagates(e) == [pc |-> "raised", result |-> <<e>>]

\* except Exception as e: return f"Error generating plan: {e}"
PlanFailure(e) ==
    [pc |-> "returned", result |-> <<"Error generating plan: ", e>>]

\* except Exception as e: return f"Error synthesizing report: {e}"
SynthFailure(e) ==
    [pc |-> "returned", result |-> <<"Error synthesizing report: ", e>>]

\* report_prompt: the header and one entry per element of angle_data_list.
BuildReportPrompt(p, data) ==
    [topic |-> p.topic, context |-> p.context,
     entries |-> [i \in 1..Len(data) |->
                    [angle |-> data[i].angle, facts |-> data[i].key_facts,
                     claims |-> data[i].claims, citations |-> data[i].citations]]]

MARKDOWN == "markdown report"
FinalReport == [markdown_content |-> MARKDOWN]


\* ----------------------------------------------------------------- actions
Init ==
    /\ pc = "init"
    /\ progress = <<>>
    /\ raw_plan = NoPlan
    /\ plan = NoPlan
    /\ plan_outcome = "none"
    /\ tpc = <<>>
    /\ search_outcome = <<>>
    /\ results = <<>>
    /\ fetch_state = <<>>
    /\ fetch_value = <<>>
    /\ angle_prompt = <<>>
    /\ extract_outcome = <<>>
    /\ angle_data = <<>>
    /\ planner_calls = 0
    /\ search_calls = <<>>
    /\ fetch_calls = <<>>
    /\ extract_calls = <<>>
    /\ synth_calls = 0
    /\ report_prompt = NoReportPrompt
    /\ result = <<>>
    /\ synth_outcome = "none"
    /\ stage_error = ""

\* deep_research up to its first await: progress(0.1), planning_agent.run.
Start ==
    /\ pc = "init"
    /\ progress' = Append(progress, 10)
    /\ planner_calls' = planner_calls + 1
    /\ pc' = "planning"
    /\ UNCHANGED <<planVars, taskVars, search_calls, fetch_calls, extract_calls,
                   synth_calls, report_prompt, retVars>>

\* Step 3 up to its await: progress(0.8), the report prompt, synthesis_agent.run.
BeginSynthesis(p, data) ==
    /\ progress' = progress \o (IF pc = "planning" THEN <<30, 80>> ELSE <<80>>)
    /\ report_prompt' = BuildReportPrompt(p, data)
    /\ synth_calls' = synth_calls + 1
    /\ pc' = "synth"

\* The planner call completes.  On failure the except clause returns.  On
\* success: progress(0.3), one task per angle is handed to asyncio.gather;
\* with no angle at all gather() is already done and step 3 follows at once.
PlanReturn ==
    /\ pc = "planning"
    /\ \E pl \in PlannerPlans : \E o \in AgentOutcomes(pl) :
        LET st == PlanStage(o)
            n  == Len(st.plan.angles)
        IN  /\ plan_outcome' = IF RunAndUnwrap(o).ok THEN "ok" ELSE "failed"
            /\ IF ~st.ok
               THEN /\ pc' = PlanFailure(st.err).pc
                    /\ result' = PlanFailure(st.err).result
                    /\ stage_error' = st.err
                    /\ UNCHANGED <<progress, raw_plan, plan, taskVars, search_calls,
                                   fetch_calls, extract_calls, synth_calls,
                                   report_prompt>>
               ELSE /\ raw_plan' = st.raw
                    /\ plan' = st.plan
                    /\ tpc' = [t \in 1..n |-> "created"]
                    /\ search_outcome' = [t \in 1..n |-> "none"]
                    /\ results' = [t \in 1..n |-> <<>>]
                    /\ fetch_state' = [t \in 1..n |-> <<>>]
                    /\ fetch_value' = [t \in 1..n |-> <<>>]
                    /\ angle_prompt' = [t \in 1..n |-> <<>>]
                    /\ extract_outcome' = [t \in 1..n |-> "none"]
                    /\ angle_data' = [t \in 1..n |-> NoData]
                    /\ search_calls' = [t \in 1..n |-> 0]
                    /\ fetch_calls' = [t \in 1..n |-> <<>>]
                    /\ extract_calls' = [t \in 1..n |-> 0]
                    /\ UNCHANGED <<result, stage_error>>
                    /\ IF n = 0
                       THEN BeginSynthesis(st.plan, <<>>)
                       ELSE /\ pc' = "research"
                            /\ progress' = Append(progress, 30)
                            /\ UNCHANGED <<synth_calls, report_prompt>>
    /\ UNCHANGED <<planner_calls, synth_outcome>>

\* An angle task's first step: the query, then search_duckduckgo awaits the
\* provider.  gather schedules the tasks in list order.
TaskStart(t) ==
    /\ pc = "research"
    /\ tpc[t] = "created"
    /\ \A j \in 1..(t - 1) : tpc[j] # "created"
    /\ tpc' = [tpc EXCEPT ![t] = "search"]
    /\ search_calls' = [search_calls EXCEPT ![t] = @ + 1]
    /\ UNCHANGED <<pc, progress, planVars, search_outcome, results, fetch_state,
                   fetch_value, angle_prompt, extract_outcome, angle_data,
                   planner_calls, fetch_calls, extract_calls, synth_calls,
                   report_prompt, retVars>>

\* The first steps of all tasks run before any completion is delivered.
AllStarted == \A t \in Tasks : tpc[t] # "created"

\* A task that starts over when its search found nothing to work with.
RetryAfterFailedSearch(o, k) ==
    IF o.kind = "raise" THEN "created" ELSE IF k = 0 THEN "extract" ELSE "fetch"

\* Where process_angle is after `results = await search_duckduckgo(query)`:
\* awaiting the k fetches, or with none to await, awaiting the extraction.
AfterSearch(o, k) == IF k = 0 THEN "extract" ELSE "fetch"

\* The provider call of task t completes; search_duckduckgo returns; the
\* task creates the fetches of results[:2] and awaits them.  With nothing
\* to fetch, gather() is already done and the task goes on to extraction.
SearchReturn(t) ==
    /\ pc = "research"
    /\ AllStarted
    /\ tpc[t] = "search"
    /\ \E o \in SearchOutcomes :
        LET rs == search_duckduckgo(o)
            k  == Len(TopResults(rs))
        IN  /\ search_outcome' = [search_outcome EXCEPT ![t] =
                                    IF o.kind = "raise" THEN "raised" ELSE "returned"]
            /\ results' = [results EXCEPT ![t] = rs]
            /\ fetch_state' = [fetch_state EXCEPT ![t] = [i \in 1..k |-> "pending"]]
            /\ fetch_value' = [fetch_value EXCEPT ![t] = [i \in 1..k |-> None]]
            /\ fetch_calls' = [fetch_calls EXCEPT ![t] =
                                 [i \in 1..Len(rs) |-> IF i <= k THEN 1 ELSE 0]]
            /\ tpc' = [tpc EXCEPT ![t] = AfterSearch(o, k)]
            /\ IF k = 0
               THEN /\ angle_prompt' = [angle_prompt EXCEPT ![t] = BuildAnglePrompt(rs)]
                    /\ extract_calls' = [extract_calls EXCEPT ![t] = @ + 1]
               ELSE UNCHANGED <<angle_prompt, extract_calls>>
    /\ UNCHANGED <<pc, progress, planVars, extract_outcome, angle_data,
                   planner_calls, search_calls, synth_calls, report_prompt, retVars>>

\* One fetch of task t completes.
FetchReturn(t, i) ==
    /\ pc = "research"
    /\ tpc[t] = "fetch"
    /\ i \in 1..Len(fetch_state[t])
    /\ fetch_state[t][i] = "pending"
    /\ \E o \in FetchOutcomes :
        /\ fetch_state' = [fetch_state EXCEPT ![t][i] =
                             IF o \in FetchFailures THEN "failed" ELSE "ok"]
        /\ fetch_value' = [fetch_value EXCEPT ![t][i] =
                             fetch_page_content(results[t][i].hit, o)]
    /\ UNCHANGED <<pc, progress, planVars, tpc, search_outcome, results,
                   angle_prompt, extract_outcome, angle_data, callVars,
                   report_prompt, retVars>>

\* All fetches of task t are in: the task resumes, attaches the contents,
\* builds the extraction prompt and awaits extraction_agent.run.
AttachAndExtract(t) ==
    /\ pc = "research"
    /\ tpc[t] = "fetch"
    /\ \A i \in 1..Len(fetch_state[t]) : fetch_state[t][i] # "pending"
    /\ LET rs == Attach(results[t], fetch_value[t])
       IN  /\ results' = [results EXCEPT ![t] = rs]
           /\ angle_prompt' = [angle_prompt EXCEPT ![t] = BuildAnglePrompt(rs)]
    /\ extract_calls' = [extract_calls EXCEPT ![t] = @ + 1]
    /\ tpc' = [tpc EXCEPT ![t] = "extract"]
    /\ UNCHANGED <<pc, progress, planVars, search_outcome, fetch_state, fetch_value,
                   extract_outcome, angle_data, planner_calls, search_calls,
                   fetch_calls, synth_calls, report_prompt, retVars>>

\* The extraction call of task t completes: its output, or the fallback.
\* process_angle returns, and with it go its locals (results, contents,
\* angle_prompt); only the AngleData is handed to gather.
ExtractReturn(t) ==
    /\ pc = "research"
    /\ tpc[t] = "extract"
    /\ \E a \in ExtractedAngles(plan.angles[t]) :
       \E o \in AgentOutcomes(ExtractedData(t, a)) :
        LET u == RunAndUnwrap(o)
        IN  /\ extract_outcome' = [extract_outcome EXCEPT ![t] =
                                     IF u.ok THEN "ok" ELSE "failed"]
            /\ angle_data' = [angle_data EXCEPT ![t] =
                                IF u.ok THEN u.value ELSE FallbackData(plan.angles[t])]
    /\ tpc' = [tpc EXCEPT ![t] = "done"]
    /\ search_outcome' = [search_outcome EXCEPT ![t] = "none"]
    /\ results' = [results EXCEPT ![t] = <<>>]
    /\ fetch_state' = [fetch_state EXCEPT ![t] = <<>>]
    /\ fetch_value' = [fetch_value EXCEPT ![t] = <<>>]
    /\ angle_prompt' = [angle_prompt EXCEPT ![t] = <<>>]
    /\ fetch_calls' = [fetch_calls EXCEPT ![t] = <<>>]
    /\ UNCHANGED <<pc, progress, planVars, planner_calls, search_calls,
                   extract_calls, synth_calls, report_prompt, retVars>>

\* A wait that is over as soon as one angle task has returned.
AnyAngleDone == \E t \in Tasks : tpc[t] = "done"

\* await asyncio.gather(*angle_tasks) is over: every angle task has returned.
AllAnglesDone == \A t \in Tasks : tpc[t] = "done"

\* gather hands back angle_data_list and deep_research goes on to step 3.
Synthesize ==
    /\ pc = "research"
    /\ AllAnglesDone
    /\ BeginSynthesis(plan, angle_data)
    /\ UNCHANGED <<planVars, taskVars, planner_calls, search_calls, fetch_calls,
                   extract_calls, retVars>>

\* The synthesizer call completes: the markdown, or the error string.
SynthReturn ==
    /\ pc = "synth"
    /\ \E o \in AgentOutcomes(FinalReport) :
        LET u == RunAndUnwrap(o)
        IN  IF u.ok
            THEN /\ pc' = "returned"
                 /\ result' = <<u.value.markdown_content>>
                 /\ synth_outcome' = "ok"
                 /\ UNCHANGED stage_error
            ELSE /\ pc' = SynthFailure(u.err).pc
                 /\ result' = SynthFailure(u.err).result
                 /\ synth_outcome' = "failed"
                 /\ stage_error' = u.err
    /\ UNCHANGED <<progress, planVars, taskVars, callVars, report_prompt>>

Next ==
    \/ Start
    \/ PlanReturn
    \/ \E t \in Tasks : TaskStart(t)
    \/ \E t \in Tasks : SearchReturn(t)
    \/ \E t \in Tasks : \E i \in 1..FetchTop : FetchReturn(t, i)
    \/ \E t \in Tasks : AttachAndExtract(t)
    \/ \E t \in Tasks : ExtractReturn(t)
    \/ Synthesize
    \/ SynthReturn

Spec == Init /\ [][Next]_vars

\* ---------------------------------------------- the SWOT rule on its own
\* The planner has handed over any plan of PlanInputs; the rule is applied.
InitSwot ==
    /\ pc = "swot_in"
    /\ progress = <<>>
    /\ raw_plan \in PlanInputs
    /\ plan = raw_plan
    /\ plan_outcome = "none"
    /\ tpc = <<>>
    /\ search_outcome = <<>>
    /\ results = <<>>
    /\ fetch_state = <<>>
    /\ fetch_value = <<>>
    /\ angle_prompt = <<>>
    /\ extract_outcome = <<>>
    /\ angle_data = <<>>
    /\ planner_calls = 0
    /\ search_calls = <<>>
    /\ fetch_calls = <<>>
    /\ extract_calls = <<>>
    /\ synth_calls = 0
    /\ report_prompt = NoReportPrompt
    /\ result = <<>>
    /\ synth_outcome = "none"
    /\ stage_error = ""

ApplySwotRule ==
    /\ pc = "swot_in"
    /\ plan' = ensure_swot_angle_if_applicable(plan)
    /\ pc' = "swot_out"
    /\ UNCHANGED <<progress, raw_plan, plan_outcome, taskVars, callVars,
                   report_prompt, retVars>>

SpecSwot == InitSwot /\ [][ApplySwotRule]_vars


\* ------------------------------------------------------------------ claims
N == Len(plan.angles)

\* One step of angle task t.
TaskStep(t) ==
    \/ TaskStart(t)
    \/ SearchReturn(t)
    \/ \E i \in 1..FetchTop : FetchReturn(t, i)
    \/ AttachAndExtract(t)
    \/ ExtractReturn(t)

\* C1: whenever the SWOT rule applies (ticker flag, or a financial keyword
\* in the lower-cased "topic context"), the plan after the rule has exactly
\* one angle mentioning SWOT and between 3 and 4 angles, whatever angle list
\* the planner handed over.
C1_ExactlyOneSwotWithin3To4 ==
    (pc = "swot_out" /\ needs_swot(raw_plan)) =>
        /\ SwotCount(plan.angles) = 1
        /\ Len(plan.angles) \in 3..4

\* C2: when the rule applies to a plan none of whose angles mentions SWOT,
\* a plan of 4 angles has its last angle replaced by "SWOT analysis", keeps
\* its first three angles and its length; a plan of fewer than 4 angles has
\* "SWOT analysis" appended and keeps every angle in place.
C2_ReplaceLastAtCapElseAppend ==
    (pc = "swot_out" /\ needs_swot(raw_plan) /\ ~HasSwotAngle(raw_plan.angles)) =>
        /\ Len(raw_plan.angles) = 4 =>
              /\ Len(plan.angles) = 4
              /\ plan.angles[4] = SWOT_ANALYSIS
              /\ \A i \in 1..3 : plan.angles[i] = raw_plan.angles[i]
        /\ Len(raw_plan.angles) < 4 =>
              /\ Len(plan.angles) = Len(raw_plan.angles) + 1
              /\ plan.angles[Len(plan.angles)] = SWOT_ANALYSIS
              /\ \A i \in 1..Len(raw_plan.angles) : plan.angles[i] = raw_plan.angles[i]

C2_Witness ==
    /\ pc = "swot_out"
    /\ ~raw_plan.is_ticker
    /\ raw_plan.topic = topic_stock_kelvin
    /\ raw_plan.context = context_dotted_investor
    /\ needs_swot(raw_plan)
    /\ Len(raw_plan.angles) = 4
    /\ ~HasSwotAngle(raw_plan.angles)
    /\ plan.angles[4] = SWOT_ANALYSIS
    /\ plan.angles[3] = raw_plan.angles[3]

\* C3: an angle task whose extraction throws yields the empty AngleData of
\* its own angle; its siblings are not cancelled (each can still take its
\* next step) and return their own extraction results; and the synthesizer
\* is called with one entry per angle task, in angle order: the data the
\* task's extraction returned (under the angle name the agent gave it), or
\* for a failed task the task's angle with empty lists.
C3_FailedAngleFallsBackSiblingsGoOn ==
    /\ \A t \in Tasks : tpc[t] = "done" =>
          /\ extract_outcome[t] \in {"ok", "failed"}
          /\ extract_outcome[t] = "failed" =>
                /\ angle_data[t].angle = plan.angles[t]
                /\ angle_data[t].key_facts = <<>>
                /\ angle_data[t].claims = <<>>
                /\ angle_data[t].citations = <<>>
          /\ extract_outcome[t] = "ok" =>
                \E a \in ExtractedAngles(plan.angles[t]) :
                    angle_data[t] = ExtractedData(t, a)
    /\ (pc = "research" /\ \E f \in Tasks : extract_outcome[f] = "failed") =>
          \A t \in Tasks : tpc[t] # "done" => ENABLED TaskStep(t)
    /\ (pc = "research" /\ AllAnglesDone) => ENABLED Synthesize
    /\ (pc \in {"synth", "returned"} /\ plan_outcome = "ok") =>
          /\ synth_calls = 1
          /\ Len(report_prompt.entries) = N
          /\ \A t \in Tasks :
                /\ report_prompt.entries[t].angle = angle_data[t].angle
                /\ extract_outcome[t] = "failed" =>
                      /\ report_prompt.entries[t].angle = plan.angles[t]
                      /\ report_prompt.entries[t].facts = <<>>
                      /\ report_prompt.entries[t].claims = <<>>
                      /\ report_prompt.entries[t].citations = <<>>
                /\ extract_outcome[t] = "ok" =>
                      /\ report_prompt.entries[t].facts = <<t>>
                      /\ report_prompt.entries[t].claims = <<t>>
                      /\ report_prompt.entries[t].citations = <<t>>

C3_Witness ==
    /\ pc = "synth"
    /\ N = 3
    /\ extract_outcome = <<"ok", "failed", "ok">>
    /\ report_prompt.entries[1].angle = angle_something_else
    /\ report_prompt.entries[2].angle = plan.angles[2]
    /\ report_prompt.entries[2].facts = <<>>
    /\ report_prompt.entries[3].facts = <<3>>

\* C4: an exception at the planning stage or at the synthesis stage never
\* leaves deep_research; the function returns "Error generating plan: <e>"
\* respectively "Error synthesizing report: <e>", e being the exception.
C4_StageErrorsAreReturnedAsText ==
    /\ pc # "raised"
    /\ plan_outcome = "failed" =>
          /\ pc = "returned"
          /\ stage_error # ""
          /\ result = <<"Error generating plan: ", stage_error>>
    /\ synth_outcome = "failed" =>
          /\ pc = "returned"
          /\ stage_error # ""
          /\ result = <<"Error synthesizing report: ", stage_error>>

C4_Witness ==
    /\ pc = "returned"
    /\ synth_outcome = "failed"
    /\ stage_error = "Unsupported AgentRunResult shape"
    /\ result = <<"Error synthesizing report: ", "Unsupported AgentRunResult shape">>

\* C5: when the planning stage throws, the run is over: no angle task
\* exists, no search, fetch, extraction or synthesis call was made, the only
\* checkpoint reported is 0.1, the planning error string was returned, and
\* nothing can happen afterwards.
C5_PlanningFailureAbortsRun ==
    plan_outcome = "failed" =>
        /\ pc = "returned"
        /\ result = <<"Error generating plan: ", stage_error>>
        /\ progress = <<10>>
        /\ tpc = <<>>
        /\ search_calls = <<>>
        /\ fetch_calls = <<>>
        /\ extract_calls = <<>>
        /\ synth_calls = 0
        /\ ~ENABLED Next

C5_Witness ==
    /\ plan_outcome = "failed"
    /\ stage_error = "agent run failed"
    /\ pc = "returned"
    /\ progress = <<10>>

\* C6: when the provider call of a search throws, search_duckduckgo returns
\* the empty list and the angle task goes on: nothing is fetched and the
\* extraction call is made with a prompt that lists no result.
C6_SearchFailureGivesEmptyList ==
    \A t \in Tasks : search_outcome[t] = "raised" =>
        /\ pc = "research"
        /\ results[t] = <<>>
        /\ fetch_state[t] = <<>>
        /\ fetch_calls[t] = <<>>
        /\ tpc[t] = "extract"
        /\ extract_calls[t] = 1
        /\ angle_prompt[t] = <<>>

C6_Witness ==
    \E t \in Tasks :
        /\ search_outcome[t] = "raised"
        /\ tpc[t] = "extract"
        /\ \E u \in Tasks : u # t /\ Len(results[u]) = MaxResults

\* C7: a fetch that fails returns None; the task is not stopped by it: the
\* sibling fetch can still complete, the task resumes once both are in, the
\* sibling's text is attached to its own result, the result whose fetch
\* failed has no content, and the extraction call is made.
C7_FetchFailureGivesNone ==
    \A t \in Tasks :
        /\ pc # "raised"
        /\ \A i \in 1..Len(fetch_state[t]) :
              /\ fetch_state[t][i] = "failed" =>
                    /\ fetch_value[t][i] = None
                    /\ results[t][i].content = None
              /\ (tpc[t] = "fetch" /\ fetch_state[t][i] = "pending") =>
                    ENABLED FetchReturn(t, i)
        /\ (tpc[t] = "fetch" /\ \A i \in 1..Len(fetch_state[t]) :
                                    fetch_state[t][i] # "pending") =>
              ENABLED AttachAndExtract(t)
        /\ tpc[t] = "extract" =>
              /\ extract_calls[t] = 1
              /\ Len(angle_prompt[t]) = Len(results[t])
              /\ \A i \in 1..Len(fetch_state[t]) :
                    /\ fetch_state[t][i] = "failed" =>
                          angle_prompt[t][i].content = None
                    /\ (fetch_state[t][i] = "ok" /\ Truthy(fetch_value[t][i])) =>
                          /\ results[t][i].content = fetch_value[t][i]
                          /\ results[t][i].content = Some(results[t][i].hit)

C7_Witness ==
    \E t \in Tasks :
        /\ tpc[t] = "extract"
        /\ fetch_state[t] = <<"failed", "ok">>
        /\ results[t][1].content = None
        /\ results[t][2].content = Some(2)

\* C8: no angle task exists before planning has finished; after a
\* successful plan there is exactly one task per angle of the plan as the
\* SWOT rule left it, each started once; the synthesizer is called only when
\* every angle task has returned; and the checkpoints come in the order
\* 0.1 (before planning), 0.3 (before the tasks), 0.8 (before synthesis).
C8_FanOutFanInOrder ==
    /\ pc \in {"init", "planning"} =>
          /\ tpc = <<>>
          /\ search_calls = <<>>
          /\ plan_outcome = "none"
    /\ plan_outcome = "ok" =>
          /\ plan = ensure_swot_angle_if_applicable(raw_plan)
          /\ Len(tpc) = Len(plan.angles)
          /\ Len(search_calls) = Len(plan.angles)
          /\ \A t \in Tasks :
                search_calls[t] = IF tpc[t] = "created" THEN 0 ELSE 1
    /\ (synth_calls > 0 \/ pc \in {"synth", "returned"}) =>
          \A t \in Tasks : tpc[t] = "done"
    /\ pc = "init" => progress = <<>>
    /\ pc = "planning" => progress = <<10>>
    /\ pc = "research" => progress = <<10, 30>>
    /\ pc = "synth" => progress = <<10, 30, 80>>
    /\ pc = "returned" =>
          progress = IF plan_outcome = "ok" THEN <<10, 30, 80>> ELSE <<10>>

C8_Witness ==
    /\ pc = "synth"
    /\ Len(tpc) = 3
    /\ Len(raw_plan.angles) = 2
    /\ progress = <<10, 30, 80>>
    /\ \A t \in Tasks : tpc[t] = "done"

\* C9 as stated: at most min(2, number of results) fetches per angle, the
\* text a fetch returns is attached to its own result, and results at
\* index 2 or higher have no content when the extraction prompt is built.
C9_FetchedTextIsAttached ==
    \A t \in Tasks : tpc[t] = "extract" =>
        /\ Len(fetch_state[t]) = Min(2, Len(results[t]))
        /\ \A i \in 1..Len(results[t]) :
              /\ i > 2 => results[t][i].content = None
              /\ (i <= 2 /\ fetch_value[t][i] # None) =>
                    results[t][i].content = fetch_value[t][i]

\* C9 amended: at most min(2, number of results) fetches per angle, one per
\* top result; a non-empty text returned by the fetch of result i is
\* attached to result i and to no other; a fetch that returns the empty
\* text or fails leaves the result's content absent; results at index 2 or
\* higher have no content when the extraction prompt is built.
C9_NonEmptyTextIsAttached ==
    \A t \in Tasks :
        /\ tpc[t] \in {"fetch", "extract"} =>
              /\ Len(fetch_state[t]) = Min(2, Len(results[t]))
              /\ Len(fetch_calls[t]) = Len(results[t])
              /\ \A i \in 1..Len(results[t]) :
                    fetch_calls[t][i] = IF i <= 2 THEN 1 ELSE 0
        /\ tpc[t] = "extract" =>
              /\ Len(angle_prompt[t]) = Len(results[t])
              /\ \A i \in 1..Len(results[t]) :
                    /\ i > 2 =>
                          /\ results[t][i].content = None
                          /\ angle_prompt[t][i].content = None
                    /\ i <= 2 =>
                          /\ Truthy(fetch_value[t][i]) =>
                                results[t][i].content = fetch_value[t][i]
                          /\ ~Truthy(fetch_value[t][i]) =>
                                results[t][i].content = None
                          /\ results[t][i].content \in {None, Some(results[t][i].hit)}
                          /\ angle_prompt[t][i].content = results[t][i].content

C9_Witness ==
    \E t \in Tasks :
        /\ tpc[t] = "extract"
        /\ Len(results[t]) = 3
        /\ fetch_value[t] = <<Some(1), Some(0)>>
        /\ results[t][1].content = Some(1)
        /\ results[t][2].content = None
        /\ results[t][3].content = None

\* C10: in one run the planner is called exactly once, the search provider
\* at most once per angle, each result is fetched at most once, the
\* extraction agent is called at most once per angle and the synthesizer at
\* most once, whichever of these calls failed.
C10_NoCallIsReissued ==
    /\ planner_calls = IF pc = "init" THEN 0 ELSE 1
    /\ synth_calls <= 1
    /\ \A t \in Tasks :
          /\ search_calls[t] <= 1
          /\ extract_calls[t] <= 1
          /\ \A i \in 1..Len(fetch_calls[t]) : fetch_calls[t][i] <= 1
          /\ search_outcome[t] = "raised" => tpc[t] # "created" /\ tpc[t] # "search"
          /\ extract_outcome[t] = "failed" => tpc[t] = "done"
    /\ synth_outcome = "failed" => pc = "returned" /\ ~ENABLED Next

C10_Witness ==
    /\ pc = "returned"
    /\ synth_outcome = "failed"
    /\ N = 3
    /\ \A t \in Tasks : extract_outcome[t] = "failed"
    /\ planner_calls = 1
    /\ synth_calls = 1

====
